---- MODULE Spec2Model ----
(***************************************************************************)
(* Model of rofld's Captioner (src/server/handlers/captioner.rs): the      *)
(* render thread pool behind a Mutex, the per-task timeout wrapper, the    *)
(* configuration setters and the cache preloading; of the text module      *)
(* (src/lib/util/text.rs): measuring, line breaking, automatic sizing and  *)
(* rendering; and of the templates (src/resources/templates.rs).           *)
(***************************************************************************)
EXTENDS Integers, Sequences, FiniteSets, TLC

(***************************************************************************)
(* Bounds of the model.                                                    *)
(***************************************************************************)
\* Number of render() calls followed in one behaviour.
MaxCalls == 2
\* Number of set_thread_count() calls followed in one behaviour.
MaxResizes == 1
\* Size of a pool built without pool_size(): the number of CPUs.
NumCpus == 2

\* Thread counts handed to set_thread_count(): 0 (the builder's default) and 1.
ThreadCounts == {0, 1}

\* Threads that call Captioner::render.
Renderers == {"r1", "r2"}
\* The thread that calls Captioner::set_thread_count.
Resizer == "resize"

\* std::time::Duration values handed to set_task_timeout: 0, 10 ms, 1 s.
Durations ==
    { [secs |-> 0, nanos |-> 0], [secs |-> 0, nanos |-> 10000000],
      [secs |-> 1, nanos |-> 0] }
ZeroDuration == [secs |-> 0, nanos |-> 0]
\* Duration::as_secs: the whole seconds of the duration.
as_secs(d) == d.secs

\* args::Resource.
Kinds == {"Template", "Font"}

\* tokio_timer::TimerError. A TimeoutError<F> is modelled as a record, the
\* future F left out: [kind |-> "TimedOut"] or [kind |-> "Timer", err |-> e].
TimerErrors == {"TooLong", "NoCapacity"}

VARIABLES
    pool,          \* Captioner::pool: the id of the CpuPool inside the Mutex
    pools,         \* every CpuPool created: its size, the count asked, handle alive
    lock,          \* holder of the Mutex around the pool ("free" when unlocked)
    calls,         \* one record per render() call that reached its outcome or spawned
    rpc,           \* position of each render() caller
    spc,           \* position of the set_thread_count() caller
    snew,          \* the pool set_thread_count() built and has not installed yet
    task_timeout,  \* Captioner::task_timeout
    jpeg_quality,  \* engine.config.jpeg_quality
    gif_quality,   \* engine.config.gif_quality
    lastCall,      \* the last quality setter call: its name, argument and return value
    capacity,      \* capacity of the template cache and of the font cache
    listing,       \* names listed by list_templates() and by list_fonts()
    broken,        \* names whose file fails to load
    ppc,           \* position of the preload() call
    pkind,         \* the Resource preload() was called with
    psample,       \* the names rand::sample() returned
    ptodo,         \* sampled names the for loop has not reached yet
    pattempted,    \* names handed to engine.preload_template / preload_font
    pwarned,       \* names whose load error was logged with warn!
    bpc,           \* position inside break_lines and break_single_line
    bin,           \* break_lines' s, a sequence of characters
    bstyle,        \* break_lines' style
    bwidth,        \* break_lines' line_width
    blines,        \* lines of s.lines() that flat_map has not reached yet
    bsegs,         \* segments the for loop has not reached yet
    bres,          \* result
    bcur,          \* current_line
    bcurw,         \* current_width
    bseg,          \* segment, inside the hard-break loop
    bsegw,         \* segment_width, inside the hard-break loop
    fpc,           \* position inside fit_text or fit_line
    fkind,         \* which of the two was called
    ftext,         \* their s
    frect,         \* fit_text's rect; fit_line's max_width is its width
    fsize,         \* size
    fiters,        \* iters
    fresult,       \* the Option<f32> returned
    flog,          \* the sizes tried by fit_text, each with the lines it was broken into
    fitsAt,        \* for each size, whether the text broken at that size fits the rect
    tpc,           \* position inside render_text
    ttext,         \* render_text's s
    talign,        \* align
    trect,         \* rect, shrunk after each line
    tstyle,        \* style
    tlines,        \* lines the for loop has not reached yet
    tdrawn,        \* the render_line calls made: the line, its position
    img,           \* the pixels of the image blended so far
    tsigned,       \* the signed coordinates glyph.draw handed to the closure so far
    mpc,           \* position of the template load
    mpath,         \* the template file: its stem and extension
    mfile,         \* what is_gif and is_gif_animated say of the file
    template,      \* the Template built from it
    preferred      \* what Template::preferred_format returned

capVars == <<pool, pools, lock, calls, rpc, spc, snew, task_timeout>>
cfgVars == <<jpeg_quality, gif_quality, lastCall>>
preVars == <<capacity, listing, broken, ppc, pkind, psample, ptodo, pattempted, pwarned>>
brkVars == <<bpc, bin, bstyle, bwidth, blines, bsegs, bres, bcur, bcurw, bseg, bsegw>>
fitVars == <<fpc, fkind, ftext, frect, fsize, fiters, fresult, flog, fitsAt>>
txtVars == <<tpc, ttext, talign, trect, tstyle, tlines, tdrawn, img, tsigned>>
tplVars == <<mpc, mpath, mfile, template, preferred>>
libVars == <<fitVars, txtVars, tplVars>>
vars == <<capVars, cfgVars, preVars, brkVars, libVars>>

(***************************************************************************)
(* Helpers.                                                                *)
(***************************************************************************)
\* Who a holder of the mutex is, as a caller of try_lock() finds it.
HolderKind(holder) ==
    IF holder = "free" THEN "free" ELSE IF holder = Resizer THEN "resizer" ELSE "renderer"

\* The record of a render() call at the moment of its try_lock(): `by` is the
\* caller while the call runs (and "returned" afterwards), `lockSeen` what held
\* the mutex.
NewCall(r, seen) ==
    [ by |-> r, lockSeen |-> HolderKind(seen), pool |-> 0, state |-> "none",
      fut |-> "pending", cause |-> "none",
      deadline |-> FALSE, returned |-> FALSE ]

\* The call a renderer is in the middle of.
CurrentCall(r) == CHOOSE i \in 1..Len(calls) : calls[i].by = r

\* Number of tasks a pool's workers are executing.
RunningOn(p) == Cardinality({ i \in 1..Len(calls) : calls[i].pool = p /\ calls[i].state = "running" })

\* Mutant of pool_size: the count is handed to the builder unguarded.
pool_size_unguarded(count) == count

\* futures_cpupool::Builder: pool_size(count) only when count > 0, else the default.
pool_size(count) == IF count > 0 THEN count ELSE NumCpus

\* Mutant of try_lock: the failure of try_lock is not seen.
try_lock_never_fails(holder) == "Ok"

\* Mutex::try_lock on a mutex held by `holder`.
try_lock(holder) == IF holder = "free" THEN "Ok" ELSE "Err"

\* The test that decides whether render() wraps the task with a deadline.
has_timeout(max_duration) == as_secs(max_duration) > 0

\* Mutant of RenderErrorFrom: the match arms swapped.
RenderErrorFrom_swapped(e) ==
    IF e.kind = "Timer" /\ e.err = "NoCapacity" THEN "Timeout" ELSE "Unavailable"

\* impl From<TimeoutError<F>> for RenderError.
RenderErrorFrom(e) ==
    IF e.kind = "Timer" /\ e.err = "NoCapacity" THEN "Unavailable" ELSE "Timeout"

\* Mutant of Deliver: the worker's result replaces what the wrapper resolved.
Deliver_overwrites(c, res) ==
    [c EXCEPT !.state = "finished",
              !.fut = IF res = "ok" THEN "Ok" ELSE "Caption",
              !.cause = IF res = "ok" THEN "TaskOk" ELSE "TaskErr"]

\* The future of a call once its worker returned `res`: task_future mapped with
\* RenderError::Caption. A future already resolved by the wrapper keeps its
\* value: the worker's result is dropped.
Deliver(c, res) ==
    IF c.fut = "pending"
    THEN [c EXCEPT !.state = "finished",
                   !.fut = IF res = "ok" THEN "Ok" ELSE "Caption",
                   !.cause = IF res = "ok" THEN "TaskOk" ELSE "TaskErr"]
    ELSE [c EXCEPT !.state = "finished"]

(***************************************************************************)
(* Captioner::render.                                                      *)
(***************************************************************************)
\* self.pool.try_lock(): on Err the call returns future::err(Unavailable).
RenderTryLock(r) ==
    /\ rpc[r] = "idle"
    /\ Len(calls) < MaxCalls
    /\ IF try_lock(lock) = "Ok"
       THEN /\ lock' = r
            /\ rpc' = [rpc EXCEPT ![r] = "locked"]
            /\ calls' = Append(calls, NewCall(r, lock))
       ELSE /\ calls' = Append(calls, [NewCall(r, lock) EXCEPT
                                          !.fut = "Unavailable", !.cause = "TryLock",
                                          !.by = "returned", !.returned = TRUE])
            /\ UNCHANGED <<lock, rpc>>
    /\ UNCHANGED <<pool, pools, spc, snew, task_timeout, cfgVars, preVars, brkVars, libVars>>

\* The rest of render() under the guard: pool.spawn_fn(...) queues the task on
\* the pool the guard points to; task_timeout is loaded and the task is wrapped
\* with timer.timeout() when the test on it passes; the boxed future is
\* returned and the MutexGuard is dropped.
RenderSubmit(r) ==
    /\ rpc[r] = "locked"
    /\ calls' = [calls EXCEPT ![CurrentCall(r)].pool = pool,
                              ![CurrentCall(r)].state = "queued",
                              ![CurrentCall(r)].deadline = has_timeout(task_timeout),
                              ![CurrentCall(r)].by = "returned",
                              ![CurrentCall(r)].returned = TRUE]
    /\ lock' = "free"
    /\ rpc' = [rpc EXCEPT ![r] = "idle"]
    /\ UNCHANGED <<pool, pools, spc, snew, task_timeout, cfgVars, preVars, brkVars, libVars>>

(***************************************************************************)
(* The pool's workers and the timer.                                       *)
(***************************************************************************)
\* A free worker of the task's pool takes the oldest queued task. A task whose
\* future was already dropped by the wrapper may be skipped by the pool.
WorkerStart(i) ==
    /\ i \in 1..Len(calls)
    /\ calls[i].state = "queued"
    /\ RunningOn(calls[i].pool) < pools[calls[i].pool].size
    /\ \A j \in 1..(i - 1) : ~(calls[j].pool = calls[i].pool /\ calls[j].state = "queued")
    /\ \/ calls' = [calls EXCEPT ![i].state = "running"]
       \/ /\ calls[i].fut # "pending"
          /\ calls' = [calls EXCEPT ![i].state = "skipped"]
    /\ UNCHANGED <<pool, pools, lock, rpc, spc, snew, task_timeout, cfgVars, preVars, brkVars, libVars>>

\* engine.caption(im) returns Ok(out) or Err(e) on the worker thread.
WorkerFinish(i) ==
    /\ i \in 1..Len(calls)
    /\ calls[i].state = "running"
    /\ \E res \in {"ok", "err"} : calls' = [calls EXCEPT ![i] = Deliver(calls[i], res)]
    /\ UNCHANGED <<pool, pools, lock, rpc, spc, snew, task_timeout, cfgVars, preVars, brkVars, libVars>>

\* The deadline of a wrapped task expires before the task's result is there.
TimerFire(i) ==
    /\ i \in 1..Len(calls)
    /\ calls[i].returned /\ calls[i].deadline /\ calls[i].fut = "pending"
    /\ calls' = [calls EXCEPT
                    ![i].fut = RenderErrorFrom([kind |-> "TimedOut", err |-> "none"]),
                    ![i].cause = "TimedOut"]
    /\ UNCHANGED <<pool, pools, lock, rpc, spc, snew, task_timeout, cfgVars, preVars, brkVars, libVars>>

\* The timer itself fails for a wrapped task (TimeoutError::Timer).
TimerFail(i) ==
    /\ i \in 1..Len(calls)
    /\ calls[i].returned /\ calls[i].deadline /\ calls[i].fut = "pending"
    /\ \E e \in TimerErrors :
         calls' = [calls EXCEPT
                      ![i].fut = RenderErrorFrom([kind |-> "Timer", err |-> e]),
                      ![i].cause = e]
    /\ UNCHANGED <<pool, pools, lock, rpc, spc, snew, task_timeout, cfgVars, preVars, brkVars, libVars>>

(***************************************************************************)
(* Captioner::set_thread_count and Captioner::set_task_timeout.            *)
(***************************************************************************)
\* builder.create(): the new pool exists before the lock is asked for.
SetThreadCountCreate(count) ==
    /\ spc = "idle"
    /\ Len(pools) < 1 + MaxResizes
    /\ pools' = Append(pools, [size |-> pool_size(count), asked |-> count, open |-> TRUE])
    /\ snew' = Len(pools) + 1
    /\ spc' = "created"
    /\ UNCHANGED <<pool, lock, calls, rpc, task_timeout, cfgVars, preVars, brkVars, libVars>>

\* self.pool.lock(): waits until the mutex is free.
SetThreadCountLock ==
    /\ spc = "created"
    /\ lock = "free"
    /\ lock' = Resizer
    /\ spc' = "locked"
    /\ UNCHANGED <<pool, pools, calls, rpc, snew, task_timeout, cfgVars, preVars, brkVars, libVars>>

\* Mutant of SetThreadCountStore: the old pool is shut down and stays installed.
SetThreadCountStore_keeps_old ==
    /\ spc = "locked"
    /\ pools' = [pools EXCEPT ![pool].open = FALSE]
    /\ lock' = "free"
    /\ spc' = "idle"
    /\ snew' = 0
    /\ UNCHANGED <<pool, calls, rpc, task_timeout, cfgVars, preVars, brkVars, libVars>>

\* *guard = pool: the new pool is installed, the old handle is dropped (its
\* workers close after the tasks already queued), the guard is released.
SetThreadCountStore ==
    /\ spc = "locked"
    /\ pool' = snew
    /\ pools' = [pools EXCEPT ![pool].open = FALSE]
    /\ lock' = "free"
    /\ spc' = "idle"
    /\ snew' = 0
    /\ UNCHANGED <<calls, rpc, task_timeout, cfgVars, preVars, brkVars, libVars>>

\* self.task_timeout.store(timeout, Relaxed).
SetTaskTimeout(d) ==
    /\ task_timeout' = d
    /\ task_timeout # d
    /\ UNCHANGED <<pool, pools, lock, calls, rpc, spc, snew, cfgVars, preVars, brkVars, libVars>>

(***************************************************************************)
(* Captioner::new and the specification of the render path.                *)
(***************************************************************************)
InitPool ==
    /\ pool = 1
    /\ pools = << [size |-> NumCpus, asked |-> 0, open |-> TRUE] >>
    /\ lock = "free"
    /\ calls = << >>
    /\ rpc = [r \in Renderers |-> "idle"]
    /\ spc = "idle"
    /\ snew = 0

\* Captioner::new: no timeout.
InitCaptioner == InitPool /\ task_timeout = ZeroDuration

\* The parts of the state the render path leaves alone, at rest.
InitConfig ==
    /\ jpeg_quality = 100
    /\ gif_quality = 100
    /\ lastCall = [op |-> "none", arg |-> 0, ret |-> TRUE]

InitPreload ==
    /\ capacity = [k \in Kinds |-> 0]
    /\ listing = [k \in Kinds |-> {}]
    /\ broken = {}
    /\ ppc = "idle"
    /\ pkind = "Template"
    /\ psample = {}
    /\ ptodo = {}
    /\ pattempted = {}
    /\ pwarned = {}

InitBreak ==
    /\ bpc = "idle"
    /\ bin = << >>
    /\ bstyle = [size |-> 1]
    /\ bwidth = 0
    /\ blines = << >>
    /\ bsegs = << >>
    /\ bres = << >>
    /\ bcur = << >>
    /\ bcurw = 0
    /\ bseg = << >>
    /\ bsegw = 0

\* No fit_text or fit_line call is under way.
InitFit ==
    /\ fpc = "idle"
    /\ fkind = "fit_text"
    /\ ftext = << >>
    /\ frect = [min |-> [x |-> 0, y |-> 0], max |-> [x |-> 0, y |-> 0]]
    /\ fsize = 0
    /\ fiters = 0
    /\ fresult = [some |-> FALSE, size |-> 0]
    /\ flog = << >>
    /\ fitsAt = << >>

\* No render_text call is under way; no pixel of the image is blended.
InitText ==
    /\ tpc = "idle"
    /\ ttext = << >>
    /\ talign = [vertical |-> "Top", horizontal |-> "Left"]
    /\ trect = [min |-> [x |-> 0, y |-> 0], max |-> [x |-> 0, y |-> 0]]
    /\ tstyle = [size |-> 1]
    /\ tlines = << >>
    /\ tdrawn = << >>
    /\ img = {}
    /\ tsigned = {}

\* No template is loaded.
InitTemplate ==
    /\ mpc = "idle"
    /\ mpath = [stem |-> "", extension |-> ""]
    /\ mfile = [is_gif |-> FALSE, is_gif_animated |-> FALSE]
    /\ template = [variant |-> "none", format |-> "none"]
    /\ preferred = "none"

InitLib == InitFit /\ InitText /\ InitTemplate

Init == InitCaptioner /\ InitConfig /\ InitPreload /\ InitBreak /\ InitLib

Next ==
    \/ \E r \in Renderers : RenderTryLock(r)
    \/ \E r \in Renderers : RenderSubmit(r)
    \/ \E i \in 1..MaxCalls : WorkerStart(i)
    \/ \E i \in 1..MaxCalls : WorkerFinish(i)
    \/ \E i \in 1..MaxCalls : TimerFire(i)
    \/ \E i \in 1..MaxCalls : TimerFail(i)
    \/ \E count \in ThreadCounts : SetThreadCountCreate(count)
    \/ SetThreadCountLock
    \/ SetThreadCountStore
    \/ \E d \in Durations : SetTaskTimeout(d)

Spec == Init /\ [][Next]_vars

\* The server once set_config() has run: the timeout is the one of the command
\* line and is not changed while requests are served.
InitServing ==
    InitPool /\ task_timeout \in Durations /\ InitConfig /\ InitPreload /\ InitBreak /\ InitLib

NextServing ==
    \/ \E r \in Renderers : RenderTryLock(r)
    \/ \E r \in Renderers : RenderSubmit(r)
    \/ \E i \in 1..MaxCalls : WorkerStart(i)
    \/ \E i \in 1..MaxCalls : WorkerFinish(i)
    \/ \E i \in 1..MaxCalls : TimerFire(i)
    \/ \E i \in 1..MaxCalls : TimerFail(i)
    \/ \E count \in ThreadCounts : SetThreadCountCreate(count)
    \/ SetThreadCountLock
    \/ SetThreadCountStore

\* The pool's worker threads are OS threads: each keeps being scheduled.
FairSpec ==
    /\ InitServing /\ [][NextServing]_vars
    /\ \A i \in 1..MaxCalls : WF_vars(WorkerStart(i)) /\ WF_vars(WorkerFinish(i))

(***************************************************************************)
(* Claims about the render path.                                           *)
(***************************************************************************)
Spawned(i) == i \in 1..Len(calls) /\ calls[i].pool # 0

\* C1: once a render's deadline has expired its future is Timeout and stays
\* Timeout, whatever the worker returns later; a worker that is executing the
\* task is not stopped: the task only moves on to finished, and under fair
\* scheduling of the workers it gets there; a call is refused by render only
\* because the mutex is held, never because of an earlier timed-out task.
C1_TimeoutIsFinal ==
    /\ [][\A i \in 1..Len(calls) :
             /\ calls[i].cause = "TimedOut"
                   => calls'[i].fut = "Timeout" /\ calls'[i].cause = "TimedOut"
             /\ calls[i].state = "running" => calls'[i].state \in {"running", "finished"}]_vars
    /\ [](\A i \in 1..Len(calls) : calls[i].cause = "TryLock" => calls[i].lockSeen # "free")
    /\ \A i \in 1..MaxCalls :
          (Spawned(i) /\ calls[i].state = "running" /\ calls[i].cause = "TimedOut")
             ~> (Spawned(i) /\ calls[i].state = "finished" /\ calls[i].fut = "Timeout")

\* C1 witness: a call timed out, its worker finished afterwards, and a later
\* call was accepted and succeeded.
C1_Witness ==
    \E i, j \in 1..Len(calls) :
        /\ i < j
        /\ calls[i].cause = "TimedOut" /\ calls[i].state = "finished" /\ calls[i].fut = "Timeout"
        /\ calls[j].fut = "Ok"

\* C2 (as claimed): every task that render submits while task_timeout is not
\* zero is wrapped with a deadline.
C2_NonZeroTimeoutWrapped ==
    [][\A i \in 1..Len(calls) :
          (calls[i].state = "none" /\ calls'[i].state = "queued" /\ task_timeout # ZeroDuration)
             => calls'[i].deadline]_vars

\* C3: a render call that finds the mutex held by set_thread_count returns at
\* once with a future already failed with Unavailable and spawns no task; and
\* while set_thread_count holds the mutex an idle caller's render can proceed
\* (it is not made to wait).
C3_ResizeMeansUnavailable ==
    /\ \A i \in 1..Len(calls) :
          calls[i].lockSeen = "resizer"
             => /\ calls[i].fut = "Unavailable" /\ calls[i].returned
                /\ calls[i].pool = 0 /\ calls[i].state = "none"
    /\ \A r \in Renderers :
          (lock = Resizer /\ rpc[r] = "idle" /\ Len(calls) < MaxCalls)
             => ENABLED RenderTryLock(r)

\* C3 witness: a render call came while set_thread_count held the mutex.
C3_Witness ==
    \E i \in 1..Len(calls) : calls[i].lockSeen = "resizer" /\ calls[i].fut = "Unavailable"

\* C4 (as claimed): Unavailable from the pool-acquisition step happens only
\* while set_thread_count holds the pool handle.
C4_UnavailableOnlyDuringResize ==
    \A i \in 1..Len(calls) : calls[i].cause = "TryLock" => calls[i].lockSeen = "resizer"

\* C5: a task is always spawned on the pool installed at that moment, which is
\* open; the pools that were replaced are exactly the closed ones; a task on a
\* replaced pool is never dropped while its caller still waits for it, without
\* a deadline it can only resolve with the worker's result, and under fair
\* scheduling of the old pool's workers its future is resolved.
C5_OldPoolDrains ==
    /\ [][\A i \in 1..Len(calls') :
             ((i > Len(calls) \/ calls[i].state = "none") /\ calls'[i].state = "queued")
                => /\ calls'[i].pool = pool
                   /\ pools[pool].open
                   /\ \A p \in 1..Len(pools) : p > pool => pools[p].open]_vars
    /\ [](\A p \in 1..Len(pools) : pools[p].open <=> (p = pool \/ p = snew))
    /\ [](\A i \in 1..Len(calls) :
            /\ (calls[i].state = "skipped") => calls[i].fut \in {"Timeout", "Unavailable"}
            /\ (Spawned(i) /\ ~calls[i].deadline) => calls[i].fut \in {"pending", "Ok", "Caption"})
    /\ \A i \in 1..MaxCalls :
          (Spawned(i) /\ ~pools[calls[i].pool].open /\ calls[i].fut = "pending")
             ~> (Spawned(i) /\ calls[i].fut # "pending")

\* C5 witness: a task spawned on a pool that has been replaced since delivered
\* its result, and a later task went to the new pool.
C5_Witness ==
    \E i, j \in 1..Len(calls) :
        /\ Spawned(i) /\ ~pools[calls[i].pool].open /\ calls[i].fut = "Ok"
        /\ calls[i].state = "finished"
        /\ Spawned(j) /\ calls[j].pool = pool /\ calls[j].pool # calls[i].pool

\* C6: the wrapper's failure is Unavailable exactly when the timer reported
\* NoCapacity; an expired deadline is Timeout; an error of the caption task is
\* Caption (and its success Ok).
C6_ErrorMapping ==
    \A i \in 1..Len(calls) :
        /\ calls[i].cause \in {"TimedOut", "TooLong", "NoCapacity"}
              => (calls[i].fut = "Unavailable" <=> calls[i].cause = "NoCapacity")
        /\ calls[i].cause = "TimedOut" => calls[i].fut = "Timeout"
        /\ calls[i].cause = "TaskErr" => calls[i].fut = "Caption"
        /\ calls[i].cause = "TaskOk" => calls[i].fut = "Ok"

\* C6 witness: one call failed on a saturated timer, another on its deadline.
C6_Witness ==
    \E i, j \in 1..Len(calls) :
        /\ calls[i].cause = "NoCapacity" /\ calls[i].fut = "Unavailable"
        /\ calls[j].cause = "TimedOut" /\ calls[j].fut = "Timeout"

\* C9: every pool has at least one worker; set_thread_count(0) builds a pool
\* of the default size, and a count above zero a pool of that size.
C9_PoolNeverEmpty ==
    \A p \in 1..Len(pools) :
        /\ pools[p].size >= 1
        /\ pools[p].asked = 0 => pools[p].size = NumCpus
        /\ pools[p].asked > 0 => pools[p].size = pools[p].asked

\* C9 witness: a render was executed on a pool installed by set_thread_count(0).
C9_Witness ==
    \E i \in 1..Len(calls) :
        /\ Spawned(i) /\ calls[i].pool > 1 /\ pools[calls[i].pool].asked = 0
        /\ calls[i].state = "finished" /\ calls[i].fut = "Ok"

(***************************************************************************)
(* Captioner::set_jpeg_quality and Captioner::set_gif_quality.             *)
(***************************************************************************)
\* u8 values handed to the quality setters.
QualityInputs == {0, 1, 50, 100, 101, 255}

\* Mutant of quality_in_range: the lower limit is not tested.
quality_in_range_no_floor(quality) == quality <= 100

\* The range test of both setters: 0 < quality && quality <= 100.
quality_in_range(quality) == 0 < quality /\ quality <= 100

SetJpegQuality(quality) ==
    /\ IF ~quality_in_range(quality)
       THEN /\ lastCall' = [op |-> "set_jpeg_quality", arg |-> quality, ret |-> FALSE]
            /\ UNCHANGED jpeg_quality
       ELSE /\ jpeg_quality' = quality
            /\ lastCall' = [op |-> "set_jpeg_quality", arg |-> quality, ret |-> TRUE]
    /\ UNCHANGED <<gif_quality, capVars, preVars, brkVars, libVars>>

SetGifQuality(quality) ==
    /\ IF ~quality_in_range(quality)
       THEN /\ lastCall' = [op |-> "set_gif_quality", arg |-> quality, ret |-> FALSE]
            /\ UNCHANGED gif_quality
       ELSE /\ gif_quality' = quality
            /\ lastCall' = [op |-> "set_gif_quality", arg |-> quality, ret |-> TRUE]
    /\ UNCHANGED <<jpeg_quality, capVars, preVars, brkVars, libVars>>

\* The engine's configuration holds some valid qualities to begin with.
InitQualities ==
    /\ jpeg_quality \in QualityInputs \cap 1..100
    /\ gif_quality \in QualityInputs \cap 1..100
    /\ lastCall = [op |-> "none", arg |-> 0, ret |-> TRUE]

NextConfig ==
    \/ \E quality \in QualityInputs : SetJpegQuality(quality)
    \/ \E quality \in QualityInputs : SetGifQuality(quality)
    \/ \E d \in Durations : SetTaskTimeout(d)

InitSetters == InitCaptioner /\ InitQualities /\ InitPreload /\ InitBreak /\ InitLib

SpecConfig == InitSetters /\ [][NextConfig]_vars

\* C7: a quality setter called with a value outside 1..100 returns false and
\* leaves the stored quality as it was; called with a value in 1..100 it stores
\* the value and returns true; it changes neither the other quality nor the
\* task timeout.
C7_QualitySetters ==
    [][(lastCall' # lastCall \/ jpeg_quality' # jpeg_quality \/ gif_quality' # gif_quality)
          => /\ lastCall'.op \in {"set_jpeg_quality", "set_gif_quality"}
             /\ lastCall'.ret = (lastCall'.arg \in 1..100)
             /\ task_timeout' = task_timeout
             /\ lastCall'.op = "set_jpeg_quality"
                   => /\ gif_quality' = gif_quality
                      /\ jpeg_quality' = IF lastCall'.arg \in 1..100
                                         THEN lastCall'.arg ELSE jpeg_quality
             /\ lastCall'.op = "set_gif_quality"
                   => /\ jpeg_quality' = jpeg_quality
                      /\ gif_quality' = IF lastCall'.arg \in 1..100
                                        THEN lastCall'.arg ELSE gif_quality]_vars

\* C7 witness: set_jpeg_quality(0) was refused after 50 had been stored, and
\* 50 is still there.
C7_Witness ==
    /\ lastCall = [op |-> "set_jpeg_quality", arg |-> 0, ret |-> FALSE]
    /\ jpeg_quality = 50

(***************************************************************************)
(* Captioner::preload.                                                     *)
(***************************************************************************)
\* Largest cache capacity.
MaxCapacity == 2
\* Names of templates and fonts on disk.
Names == {"a", "b", "c"}

Min(a, b) == IF a <= b THEN a ELSE b

\* rand::sample(rng, iter, amount): the possible results, each min(amount, n)
\* elements of the iterator, no element taken twice.
sample(items, amount) ==
    { S \in SUBSET items : Cardinality(S) = Min(amount, Cardinality(items)) }

\* engine.preload_template(name) / engine.preload_font(name).
preload_result(name) == IF name \in broken THEN "Err" ELSE "Ok"

\* Mutant of RemainingAfter: the first failed load ends the loop.
RemainingAfter_stops_on_error(todo, name, res) ==
    IF res = "Err" THEN {} ELSE todo \ {name}

\* What the for loop still has to visit after the load of `name` ended with
\* `res`: an Err is only logged.
RemainingAfter(todo, name, res) == todo \ {name}

\* let capacity = cache.capacity(); rand::sample(&mut rng, list(), capacity).
PreloadStart(what) ==
    /\ ppc \in {"idle", "done"}
    /\ pkind' = what
    /\ \E S \in sample(listing[what], capacity[what]) :
         /\ psample' = S
         /\ ptodo' = S
    /\ pattempted' = {}
    /\ pwarned' = {}
    /\ ppc' = "loop"
    /\ UNCHANGED <<capacity, listing, broken, capVars, cfgVars, brkVars, libVars>>

\* One pass of the for loop: load a sampled name; warn! when the load fails.
PreloadLoad ==
    /\ ppc = "loop"
    /\ \E name \in ptodo :
         LET res == preload_result(name) IN
         /\ pattempted' = pattempted \cup {name}
         /\ pwarned' = IF res = "Err" THEN pwarned \cup {name} ELSE pwarned
         /\ ptodo' = RemainingAfter(ptodo, name, res)
    /\ UNCHANGED <<capacity, listing, broken, ppc, pkind, psample, capVars, cfgVars, brkVars, libVars>>

\* The loop is over: preload returns ().
PreloadReturn ==
    /\ ppc = "loop"
    /\ ptodo = {}
    /\ ppc' = "done"
    /\ UNCHANGED <<capacity, listing, broken, pkind, psample, ptodo, pattempted, pwarned,
                   capVars, cfgVars, brkVars, libVars>>

\* The caches' capacities, the directories' contents and the unreadable files.
InitAssets ==
    /\ capacity \in [Kinds -> 0..MaxCapacity]
    /\ listing \in [Kinds -> SUBSET Names]
    /\ broken \in SUBSET Names
    /\ ppc = "idle"
    /\ pkind = "Template"
    /\ psample = {}
    /\ ptodo = {}
    /\ pattempted = {}
    /\ pwarned = {}

NextPreload ==
    \/ \E what \in Kinds : PreloadStart(what)
    \/ PreloadLoad
    \/ PreloadReturn

InitPreloading == InitCaptioner /\ InitConfig /\ InitAssets /\ InitBreak /\ InitLib

SpecPreload == InitPreloading /\ [][NextPreload]_vars

\* C8: preload samples at most min(capacity, number of listed names) names of
\* the listing of its kind; a failed load is logged and the loop goes on: when
\* preload returns every sampled name has been attempted, and the names that
\* failed are exactly the ones logged.
C8_PreloadLoadsSample ==
    /\ psample \subseteq listing[pkind]
    /\ Cardinality(psample) <= Min(capacity[pkind], Cardinality(listing[pkind]))
    /\ pattempted \subseteq psample
    /\ ppc = "loop" => pattempted \cup ptodo = psample
    /\ ppc = "done" => pattempted = psample
    /\ pwarned = pattempted \cap broken

\* C8 witness: preload returned after two loads, one of which failed.
C8_Witness ==
    /\ ppc = "done"
    /\ Cardinality(pattempted) = 2
    /\ Cardinality(pwarned) >= 1

(***************************************************************************)
(* Text measurement and line breaking: text_width, char_width, break_lines *)
(* and break_single_line of src/lib/util/text.rs. A Style is its size; the *)
(* font is one model font whose metrics grow linearly with the size, and   *)
(* widths are whole pixels.                                                *)
(***************************************************************************)
\* Longest input text, in characters.
MaxLen == 3
\* Largest line_width.
MaxWidth == 4
\* Number of lines the hard-break loop can push before memory runs out.
MaxLines == 5

\* The characters of the inputs: two word characters, one of them wide, the
\* space and the line feed.
Chars == {"a", "W", " ", "\n"}

\* All sequences over S of length 0..n.
SeqsUpTo(S, n) == UNION { [1..k -> S] : k \in 0..n }

\* char::is_whitespace.
is_whitespace(c) == c \in {" ", "\n"}

\* The regex class \w.
is_word_char(c) == c \in {"a", "W"}

\* Style::new(font, size, color): the font and the color are left out.
Style(size) == [size |-> size]

\* font.v_metrics(scale) of the model font.
v_metrics(style) ==
    [ascent |-> 3 * style.size, descent |-> -style.size, line_gap |-> style.size]

\* Style::line_height.
line_height(style) == v_metrics(style).ascent + v_metrics(style).line_gap

\* h_metrics().advance_width of the character's glyph at the Style's scale.
advance_width(c, style) ==
    (CASE c = "a" -> 2 [] c = "W" -> 3 [] OTHER -> 1) * style.size

\* Whether the glyph has a pixel_bounding_box (a blank glyph has none).
has_bbox(c) == ~is_whitespace(c)

\* The shift of the glyph's bounding box from the caret (bb.min.x - caret).
bbox_shift(c, style) == IF c = "W" THEN style.size ELSE 0

RECURSIVE SumAdvance(_, _)
SumAdvance(s, style) ==
    IF s = << >> THEN 0
    ELSE advance_width(Head(s), style) + SumAdvance(Tail(s), style)

\* text_width: bb.min.x + advance_width of the last glyph that has a bounding
\* box, the glyphs laid out from x = 0; 0.0 when no glyph has one.
text_width(s, style) ==
    LET boxed == { k \in 1..Len(s) : has_bbox(s[k]) } IN
    IF boxed = {} THEN 0
    ELSE LET k == CHOOSE m \in boxed : \A n \in boxed : n <= m IN
         SumAdvance(SubSeq(s, 1, k - 1), style) + bbox_shift(s[k], style)
             + advance_width(s[k], style)

\* char_width: the advance width of the character's glyph.
char_width(c, style) == advance_width(c, style)

\* str::lines: the pieces between line feeds, a final empty piece left out.
RECURSIVE lines(_)
lines(s) ==
    IF s = << >> THEN << >>
    ELSE LET feeds == { k \in 1..Len(s) : s[k] = "\n" } IN
         IF feeds = {} THEN <<s>>
         ELSE LET k == CHOOSE m \in feeds : \A n \in feeds : m <= n IN
              <<SubSeq(s, 1, k - 1)>> \o lines(SubSeq(s, k + 1, Len(s)))

\* WORD_BOUNDARY.split(s) without the empty pieces: the maximal runs of word
\* characters and of other characters.
RECURSIVE Segments(_)
Segments(s) ==
    IF s = << >> THEN << >>
    ELSE LET n == CHOOSE m \in 1..Len(s) :
                     /\ \A k \in 1..m : is_word_char(s[k]) = is_word_char(s[1])
                     /\ m = Len(s) \/ is_word_char(s[m + 1]) # is_word_char(s[1])
         IN <<SubSeq(s, 1, n)>> \o Segments(SubSeq(s, n + 1, Len(s)))

\* carryover.into_iter().rev().collect(), done wrongly: the order is kept.
Reverse_keeps_order(s) == s

RECURSIVE Reverse(_)
Reverse(s) == IF s = << >> THEN << >> ELSE Append(Reverse(Tail(s)), Head(s))

\* The inner while loop: characters are popped from the end of the segment
\* onto the carryover while current_width + segment_width > line_width; when
\* the segment is empty segment_width is set to 0.
RECURSIVE Shave(_, _, _, _, _, _, _)
Shave(segment, segment_width, carryover, carryover_width, current_width, line_width, style) ==
    IF current_width + segment_width > line_width
    THEN IF segment = << >>
         THEN [segment |-> segment, segment_width |-> 0,
               carryover |-> carryover, carryover_width |-> carryover_width]
         ELSE LET c == segment[Len(segment)] IN
              Shave(SubSeq(segment, 1, Len(segment) - 1),
                    segment_width - char_width(c, style),
                    Append(carryover, c), carryover_width + char_width(c, style),
                    current_width, line_width, style)
    ELSE [segment |-> segment, segment_width |-> segment_width,
          carryover |-> carryover, carryover_width |-> carryover_width]

\* The call break_lines(s, style, line_width): s.lines() is set up.
CallBreakLines(s, style, line_width) ==
    /\ bpc = "idle"
    /\ bin' = s
    /\ bstyle' = style
    /\ bwidth' = line_width
    /\ blines' = lines(s)
    /\ bres' = << >>
    /\ bpc' = "flat_map"
    /\ UNCHANGED <<bsegs, bcur, bcurw, bseg, bsegw>>

\* break_lines is called on its own.
BreakStart(s, style, line_width) ==
    /\ CallBreakLines(s, style, line_width)
    /\ UNCHANGED <<capVars, cfgVars, preVars, libVars>>

\* flat_map takes the next line: break_single_line is entered, the segments
\* are split.
BreakLine ==
    /\ bpc = "flat_map" /\ blines # << >>
    /\ bsegs' = Segments(Head(blines))
    /\ blines' = Tail(blines)
    /\ bcur' = << >>
    /\ bcurw' = 0
    /\ bpc' = "for"
    /\ UNCHANGED <<bin, bstyle, bwidth, bres, bseg, bsegw, capVars, cfgVars, preVars, libVars>>

\* for segment in segments: the segment fits within the current line.
BreakFits ==
    /\ bpc = "for" /\ bsegs # << >>
    /\ bcurw + text_width(Head(bsegs), bstyle) < bwidth
    /\ bcur' = bcur \o Head(bsegs)
    /\ bcurw' = bcurw + text_width(Head(bsegs), bstyle)
    /\ bsegs' = Tail(bsegs)
    /\ UNCHANGED <<bpc, bin, bstyle, bwidth, blines, bres, bseg, bsegw,
                   capVars, cfgVars, preVars, libVars>>

\* The segment does not fit but is not longer than a line: the current line is
\* finished (when not empty) and the segment starts the next one, unless it is
\* a single space.
BreakWrap ==
    /\ bpc = "for" /\ bsegs # << >>
    /\ ~(bcurw + text_width(Head(bsegs), bstyle) < bwidth)
    /\ text_width(Head(bsegs), bstyle) < bwidth
    /\ bres' = IF bcur # << >> THEN Append(bres, bcur) ELSE bres
    /\ IF Head(bsegs) = <<" ">>
       THEN bcur' = << >> /\ bcurw' = 0
       ELSE bcur' = Head(bsegs) /\ bcurw' = text_width(Head(bsegs), bstyle)
    /\ bsegs' = Tail(bsegs)
    /\ UNCHANGED <<bpc, bin, bstyle, bwidth, blines, bseg, bsegw,
                   capVars, cfgVars, preVars, libVars>>

\* The segment itself is longer than the line: the hard-break loop is entered.
BreakLong ==
    /\ bpc = "for" /\ bsegs # << >>
    /\ ~(bcurw + text_width(Head(bsegs), bstyle) < bwidth)
    /\ ~(text_width(Head(bsegs), bstyle) < bwidth)
    /\ bseg' = Head(bsegs)
    /\ bsegw' = text_width(Head(bsegs), bstyle)
    /\ bsegs' = Tail(bsegs)
    /\ bpc' = "loop"
    /\ UNCHANGED <<bin, bstyle, bwidth, blines, bres, bcur, bcurw,
                   capVars, cfgVars, preVars, libVars>>

\* One pass of the hard-break loop: shave the segment, add what remains to the
\* current line; with nothing carried over the loop is left, otherwise the
\* current line is pushed and the carryover, reversed, is the next segment.
BreakHard ==
    /\ bpc = "loop"
    /\ LET sh == Shave(bseg, bsegw, << >>, 0, bcurw, bwidth, bstyle) IN
       IF sh.carryover = << >>
       THEN /\ bcur' = bcur \o sh.segment
            /\ bcurw' = bcurw + sh.segment_width
            /\ bpc' = "for"
            /\ bseg' = << >>
            /\ bsegw' = 0
            /\ UNCHANGED bres
       ELSE /\ Len(bres) < MaxLines
            /\ bres' = Append(bres, bcur \o sh.segment)
            /\ bcur' = << >>
            /\ bcurw' = 0
            /\ bseg' = Reverse(sh.carryover)
            /\ bsegw' = sh.carryover_width
            /\ UNCHANGED bpc
    /\ UNCHANGED <<bin, bstyle, bwidth, blines, bsegs, capVars, cfgVars, preVars, libVars>>

\* A pass of the hard-break loop has a line to push and result cannot grow
\* any more: the allocation fails and the process aborts.
BreakAbort ==
    /\ bpc = "loop"
    /\ Shave(bseg, bsegw, << >>, 0, bcurw, bwidth, bstyle).carryover # << >>
    /\ Len(bres) >= MaxLines
    /\ bpc' = "aborted"
    /\ UNCHANGED <<bin, bstyle, bwidth, blines, bsegs, bres, bcur, bcurw, bseg, bsegw,
                   capVars, cfgVars, preVars, libVars>>

\* After the for loop: the current line is pushed when not empty;
\* break_single_line returns to flat_map.
BreakEnd ==
    /\ bpc = "for" /\ bsegs = << >>
    /\ bres' = IF bcur # << >> THEN Append(bres, bcur) ELSE bres
    /\ bpc' = "flat_map"
    /\ UNCHANGED <<bin, bstyle, bwidth, blines, bsegs, bcur, bcurw, bseg, bsegw,
                   capVars, cfgVars, preVars, libVars>>

\* s.lines() is exhausted: collect() returns the lines.
BreakReturn ==
    /\ bpc = "flat_map" /\ blines = << >>
    /\ bpc' = "done"
    /\ UNCHANGED <<bin, bstyle, bwidth, blines, bsegs, bres, bcur, bcurw, bseg, bsegw,
                   capVars, cfgVars, preVars, libVars>>

NextBreak ==
    \/ bpc = "idle" /\ \E s \in SeqsUpTo(Chars, MaxLen), line_width \in 0..MaxWidth :
                            BreakStart(s, Style(1), line_width)
    \/ BreakLine
    \/ BreakFits
    \/ BreakWrap
    \/ BreakLong
    \/ BreakHard
    \/ BreakAbort
    \/ BreakEnd
    \/ BreakReturn

InitBreaking == InitCaptioner /\ InitConfig /\ InitPreload /\ InitBreak /\ InitLib

SpecBreak == InitBreaking /\ [][NextBreak]_vars

\* C10 (as claimed): line breaking ends for every line and width with every
\* emitted line holding at least one character, so that there are never more
\* emitted lines than characters in the input.
C10_BreakTerminates ==
    /\ \A k \in 1..Len(bres) : Len(bres[k]) >= 1
    /\ Len(bres) <= Len(bin)

\* s with its whitespace characters left out.
NonWhitespace(s) == SelectSeq(s, LAMBDA c : ~is_whitespace(c))

\* The lines, one after the other.
RECURSIVE Concat(_)
Concat(ls) == IF ls = << >> THEN << >> ELSE Head(ls) \o Concat(Tail(ls))

\* C11: when break_lines has returned, the lines it returned, concatenated in
\* order, hold exactly the non-whitespace characters of the input in the
\* input's order: none is lost, duplicated or moved, hard breaks included.
C11_BreakKeepsCharacters ==
    bpc = "done" => NonWhitespace(Concat(bres)) = NonWhitespace(bin)

\* C11 witness: "aWa" broken for a width of 3 went through the hard-break loop
\* with a carryover of two characters and came out as "a", "W", "a".
C11_Witness ==
    /\ bpc = "done"
    /\ bin = <<"a", "W", "a">>
    /\ bwidth = 3
    /\ bres = << <<"a">>, <<"W">>, <<"a">> >>

\* Words separated by single spaces: no whitespace at either end, no two
\* whitespace characters in a row, no line feed.
SingleSpaced(s) ==
    /\ s # << >>
    /\ \A k \in 1..Len(s) : s[k] # "\n"
    /\ s[1] # " " /\ s[Len(s)] # " "
    /\ \A k \in 1..(Len(s) - 1) : ~(s[k] = " " /\ s[k + 1] = " ")

\* C12 (as claimed): for words separated by single spaces, a line break takes
\* the place of the space before the word that did not fit: no returned line
\* ends with a space and none starts with one.
C12_BreakReplacesSpace ==
    (bpc = "done" /\ SingleSpaced(bin)) =>
        \A k \in 1..Len(bres) :
            bres[k] # << >> => (bres[k][1] # " " /\ bres[k][Len(bres[k])] # " ")


(***************************************************************************)
(* Automatic sizing: fit_text and fit_line of src/lib/util/text.rs. Sizes  *)
(* are whole numbers; a product with SHRINK_FACTOR is rounded down.        *)
(***************************************************************************)
\* model::DEFAULT_TEXT_SIZE.
DEFAULT_TEXT_SIZE == 96
\* MAX_ITERS of fit_text and of fit_line.
MAX_ITERS == 16

\* size * SHRINK_FACTOR, SHRINK_FACTOR being 0.9.
Shrink(size) == (size * 9) \div 10

\* Option<f32>.
None == [some |-> FALSE, size |-> 0]
Some(size) == [some |-> TRUE, size |-> size]

\* rusttype::Rect with its width() and height().
Rect(x0, y0, x1, y1) == [min |-> [x |-> x0, y |-> y0], max |-> [x |-> x1, y |-> y1]]
width(rect) == rect.max.x - rect.min.x
height(rect) == rect.max.y - rect.min.y

\* The rects handed to fit_text: without width, without height, 1x1, wide but
\* 1 high, one line of the default size high, narrow but high.
FitRects ==
    { Rect(0, 0, 0, 400), Rect(0, 0, 450, 0), Rect(0, 0, 1, 1),
      Rect(0, 0, 1000, 1), Rect(0, 0, 1000, 400), Rect(0, 0, 450, 2000) }

\* The max_width values handed to fit_line.
FitWidths == {0, 1, 450, 1000}

\* The width fit_text compares with the rect's: that of the widest line, 0.0
\* without lines.
widest(ls, style) ==
    IF ls = << >> THEN 0
    ELSE LET ws == { text_width(ls[k], style) : k \in 1..Len(ls) } IN
         CHOOSE w \in ws : \A v \in ws : v <= w

\* The fit test with the height left out.
fits_width_only(ls, style, rect) == widest(ls, style) <= width(rect)

\* width <= rect.width() && height <= rect.height().
fits(ls, style, rect) ==
    /\ widest(ls, style) <= width(rect)
    /\ Len(ls) * line_height(style) <= height(rect)

\* fit_text(rect, s, font) is called: None at once for a rect without width
\* or height, otherwise the loop is entered with the default size.
FitTextStart(rect, s) ==
    /\ fpc = "idle"
    /\ fkind' = "fit_text"
    /\ ftext' = s
    /\ frect' = rect
    /\ flog' = << >>
    /\ IF width(rect) <= 0 \/ height(rect) <= 0
       THEN fpc' = "done" /\ fresult' = None /\ UNCHANGED <<fsize, fiters>>
       ELSE fpc' = "while" /\ fsize' = DEFAULT_TEXT_SIZE /\ fiters' = 1 /\ UNCHANGED fresult
    /\ UNCHANGED <<fitsAt, capVars, cfgVars, preVars, brkVars, txtVars, tplVars>>

\* while iters <= MAX_ITERS: the text is broken into lines at the current size.
FitTextBreak ==
    /\ fpc = "while"
    /\ fiters <= MAX_ITERS
    /\ CallBreakLines(ftext, Style(fsize), width(frect))
    /\ fpc' = "break_lines"
    /\ UNCHANGED <<fkind, ftext, frect, fsize, fiters, fresult, flog, fitsAt,
                   capVars, cfgVars, preVars, txtVars, tplVars>>

\* break_lines has returned: the lines are measured; the loop is left when
\* they fit, otherwise the size shrinks (None when it cannot shrink).
FitTextMeasure ==
    /\ fpc = "break_lines"
    /\ bpc = "done"
    /\ bpc' = "idle"
    /\ flog' = Append(flog, [size |-> fsize, lines |-> bres])
    /\ IF fits(bres, Style(fsize), frect)
       THEN fpc' = "found" /\ UNCHANGED <<fsize, fiters, fresult>>
       ELSE LET new_size == Shrink(fsize) IN
            IF new_size >= fsize
            THEN fpc' = "done" /\ fresult' = None /\ UNCHANGED <<fsize, fiters>>
            ELSE fpc' = "while" /\ fsize' = new_size /\ fiters' = fiters + 1
                 /\ UNCHANGED fresult
    /\ UNCHANGED <<fkind, ftext, frect, fitsAt, bin, bstyle, bwidth, blines, bsegs, bres,
                   bcur, bcurw, bseg, bsegw, capVars, cfgVars, preVars, txtVars, tplVars>>

\* After the loop: None when the iterations ran out, else Some(size).
FitTextReturn ==
    /\ fpc = "found" \/ (fpc = "while" /\ fiters > MAX_ITERS)
    /\ fresult' = IF fiters > MAX_ITERS THEN None ELSE Some(fsize)
    /\ fpc' = "done"
    /\ UNCHANGED <<fkind, ftext, frect, fsize, fiters, flog, fitsAt,
                   capVars, cfgVars, preVars, brkVars, txtVars, tplVars>>

\* fit_line(max_width, s, font) is called.
FitLineStart(max_width, s) ==
    /\ fpc = "idle"
    /\ fkind' = "fit_line"
    /\ ftext' = s
    /\ frect' = Rect(0, 0, max_width, 0)
    /\ flog' = << >>
    /\ IF max_width <= 0
       THEN fpc' = "done" /\ fresult' = None /\ UNCHANGED <<fsize, fiters>>
       ELSE fpc' = "line_while" /\ fsize' = DEFAULT_TEXT_SIZE /\ fiters' = 1
            /\ UNCHANGED fresult
    /\ UNCHANGED <<fitsAt, capVars, cfgVars, preVars, brkVars, txtVars, tplVars>>

\* One pass of fit_line's loop: the line is still too wide, the size shrinks.
FitLineShrink ==
    /\ fpc = "line_while"
    /\ fiters <= MAX_ITERS
    /\ text_width(ftext, Style(fsize)) > width(frect)
    /\ LET new_size == Shrink(fsize) IN
       IF new_size >= fsize
       THEN fpc' = "done" /\ fresult' = None /\ UNCHANGED <<fsize, fiters>>
       ELSE fsize' = new_size /\ fiters' = fiters + 1 /\ UNCHANGED <<fpc, fresult>>
    /\ UNCHANGED <<fkind, ftext, frect, flog, fitsAt,
                   capVars, cfgVars, preVars, brkVars, txtVars, tplVars>>

\* fit_line's loop is left: None when the iterations ran out, else Some(size).
FitLineReturn ==
    /\ fpc = "line_while"
    /\ ~(fiters <= MAX_ITERS /\ text_width(ftext, Style(fsize)) > width(frect))
    /\ fresult' = IF fiters > MAX_ITERS THEN None ELSE Some(fsize)
    /\ fpc' = "done"
    /\ UNCHANGED <<fkind, ftext, frect, fsize, fiters, flog, fitsAt,
                   capVars, cfgVars, preVars, brkVars, txtVars, tplVars>>

NextFit ==
    \/ fpc = "idle" /\ \E rect \in FitRects, s \in SeqsUpTo(Chars, MaxLen) :
                            FitTextStart(rect, s)
    \/ FitTextBreak
    \/ FitTextMeasure
    \/ FitTextReturn
    \/ fpc = "idle" /\ \E max_width \in FitWidths, s \in SeqsUpTo(Chars, MaxLen) :
                            FitLineStart(max_width, s)
    \/ FitLineShrink
    \/ FitLineReturn
    \/ BreakLine
    \/ BreakFits
    \/ BreakWrap
    \/ BreakLong
    \/ BreakHard
    \/ BreakAbort
    \/ BreakEnd
    \/ BreakReturn

InitFitting == InitCaptioner /\ InitConfig /\ InitPreload /\ InitBreak /\ InitLib

SpecFit == InitFitting /\ [][NextFit]_vars

\* fit_text and fit_line run on a thread that keeps being scheduled.
FairFit == SpecFit /\ WF_vars(NextFit)

\* C13 (as claimed): a call of fit_text or fit_line returns, and fit_text on a
\* 1x1 rect with a text that is not empty returns None.
C13_FitReturns ==
    /\ (fpc # "idle") ~> (fpc = "done")
    /\ (fpc # "idle" /\ fkind = "fit_text" /\ frect = Rect(0, 0, 1, 1) /\ ftext # << >>)
           ~> (fpc = "done" /\ ~fresult.some)

\* The default size shrunk k times: DEFAULT_TEXT_SIZE * 0.9^k.
RECURSIVE SizeAt(_)
SizeAt(k) == IF k = 0 THEN DEFAULT_TEXT_SIZE ELSE Shrink(SizeAt(k - 1))

\* The lines ls of size n are within the rect: the widest is no wider than the
\* rect and together they are no higher.
WithinRect(ls, n, rect) ==
    /\ \A j \in 1..Len(ls) : text_width(ls[j], Style(n)) <= rect.max.x - rect.min.x
    /\ Len(ls) * line_height(Style(n)) <= rect.max.y - rect.min.y

\* C14: when fit_text returns Some(s), s is the default size shrunk k times
\* for the smallest k in 0..15 at which the text, broken at that size for the
\* rect's width, fits the rect; s is the largest fitting size among those
\* tried and is not above the default size.
C14_FitTextLargestFit ==
    (fpc = "done" /\ fkind = "fit_text" /\ fresult.some) =>
        LET k == Len(flog) - 1 IN
        /\ k \in 0..(MAX_ITERS - 1)
        /\ fresult.size = SizeAt(k)
        /\ fresult.size <= DEFAULT_TEXT_SIZE
        /\ \A j \in 0..k : flog[j + 1].size = SizeAt(j)
        /\ WithinRect(flog[k + 1].lines, SizeAt(k), frect)
        /\ \A j \in 0..(k - 1) : ~WithinRect(flog[j + 1].lines, SizeAt(j), frect)
        /\ \A j \in 0..k :
               WithinRect(flog[j + 1].lines, SizeAt(j), frect) => SizeAt(j) <= fresult.size

\* C14 witness: fit_text returned Some(s) after shrinking the size at least
\* twice, the text being on two lines.
C14_Witness ==
    /\ fpc = "done" /\ fkind = "fit_text" /\ fresult.some
    /\ Len(flog) >= 3
    /\ Len(flog[Len(flog)].lines) = 2

(***************************************************************************)
(* The fit test of fit_text as a function of the size, for one text and    *)
(* one rect: the text is broken and measured at one size after the other.  *)
(***************************************************************************)
\* Largest size tried.
MaxSize == 3

\* The rects the text is fitted into.
MonoRects == { Rect(0, 0, 4, 8), Rect(0, 0, 9, 8), Rect(0, 0, 4, 24), Rect(0, 0, 9, 24) }

\* A text and a rect are chosen; no size is tried yet.
MonoStart(rect, s) ==
    /\ fpc = "idle"
    /\ fkind' = "fit_text"
    /\ ftext' = s
    /\ frect' = rect
    /\ fitsAt' = [n \in 1..MaxSize |-> "untried"]
    /\ fpc' = "size"
    /\ UNCHANGED <<fsize, fiters, fresult, flog, capVars, cfgVars, preVars, brkVars,
                   txtVars, tplVars>>

\* The body of fit_text's loop for one size: the text is broken at that size.
MonoBreak(size) ==
    /\ fpc = "size"
    /\ fitsAt[size] = "untried"
    /\ CallBreakLines(ftext, Style(size), width(frect))
    /\ fsize' = size
    /\ fpc' = "measure"
    /\ UNCHANGED <<fkind, ftext, frect, fiters, fresult, flog, fitsAt,
                   capVars, cfgVars, preVars, txtVars, tplVars>>

\* break_lines has returned: the outcome of the fit test is noted.
MonoMeasure ==
    /\ fpc = "measure"
    /\ bpc = "done"
    /\ bpc' = "idle"
    /\ fitsAt' = [fitsAt EXCEPT ![fsize] =
                      IF fits(bres, Style(fsize), frect) THEN "fits" ELSE "too large"]
    /\ fpc' = "size"
    /\ UNCHANGED <<fkind, ftext, frect, fsize, fiters, fresult, flog, bin, bstyle, bwidth,
                   blines, bsegs, bres, bcur, bcurw, bseg, bsegw,
                   capVars, cfgVars, preVars, txtVars, tplVars>>

NextMono ==
    \/ fpc = "idle" /\ \E rect \in MonoRects, s \in SeqsUpTo(Chars, MaxLen) :
                            MonoStart(rect, s)
    \/ \E size \in 1..MaxSize : MonoBreak(size)
    \/ MonoMeasure
    \/ BreakLine
    \/ BreakFits
    \/ BreakWrap
    \/ BreakLong
    \/ BreakHard
    \/ BreakAbort
    \/ BreakEnd
    \/ BreakReturn

InitMono == InitCaptioner /\ InitConfig /\ InitPreload /\ InitBreak /\ InitLib

SpecMono == InitMono /\ [][NextMono]_vars

\* C15 (as claimed): the fit test is monotone in the size: when the text
\* broken at size s fits the rect, the text broken at any smaller size fits it
\* too.
C15_FitMonotone ==
    \A s \in DOMAIN fitsAt, smaller \in DOMAIN fitsAt :
        (smaller <= s /\ fitsAt[s] = "fits" /\ fitsAt[smaller] # "untried")
            => fitsAt[smaller] = "fits"

(***************************************************************************)
(* Rendering: render_text and render_line of src/lib/util/text.rs. The     *)
(* image is the set of its pixels that were blended; coordinates are whole *)
(* pixels, and the inputs are even where the code halves them.             *)
(***************************************************************************)
\* img.width() and img.height().
ImgWidth == 8
ImgHeight == 8

\* The number of values of the unsigned integer the coordinates are cast to
\* (2^16 here, for the 2^32 of u32).
U32Values == 65536

VAligns == {"Top", "Middle", "Bottom"}
HAligns == {"Left", "Center", "Right"}

\* Alignment::new.
Alignment(v, h) == [vertical |-> v, horizontal |-> h]

\* The rects handed to render_text: the whole image, one without width, one
\* without height, the left half.
TextRects == { Rect(0, 0, 8, 8), Rect(2, 0, 2, 8), Rect(0, 2, 8, 2), Rect(0, 0, 4, 8) }

\* Alignment::origin_within.
origin_within(align, rect) ==
    [x |-> CASE align.horizontal = "Left" -> rect.min.x
             [] align.horizontal = "Center" -> rect.min.x + width(rect) \div 2
             [] align.horizontal = "Right" -> rect.max.x,
     y |-> CASE align.vertical = "Top" -> rect.min.y
             [] align.vertical = "Middle" -> rect.min.y + height(rect) \div 2
             [] align.vertical = "Bottom" -> rect.max.y]

\* Where render_line starts drawing: the origin moved left by the text's width
\* or half of it, and onto the baseline.
position_of(s, align, rect, style) ==
    LET origin == origin_within(align, rect)
        abs_descent == IF v_metrics(style).descent < 0 THEN -v_metrics(style).descent
                       ELSE v_metrics(style).descent
    IN [x |-> CASE align.horizontal = "Left" -> origin.x
                [] align.horizontal = "Center" -> origin.x - text_width(s, style) \div 2
                [] align.horizontal = "Right" -> origin.x - text_width(s, style),
        y |-> CASE align.vertical = "Top" -> origin.y + v_metrics(style).ascent
                [] align.vertical = "Middle" ->
                       origin.y + v_metrics(style).ascent - style.size \div 2
                [] align.vertical = "Bottom" -> origin.y - abs_descent]

\* The extent of the glyph's pixel bounding box, per unit of size.
glyph_box(c) == IF c = "W" THEN [w |-> 2, h |-> 3] ELSE [w |-> 1, h |-> 2]

\* The signed coordinates bbox.min + (x, y) that glyph.draw hands to the
\* closure, for every glyph of the line that has a bounding box.
glyph_pixels(s, position, style) ==
    UNION { LET min_x == position.x + SumAdvance(SubSeq(s, 1, k - 1), style)
                             + bbox_shift(s[k], style)
                min_y == position.y - glyph_box(s[k]).h * style.size
            IN { <<min_x + x, min_y + y>> :
                     x \in 0..(glyph_box(s[k]).w * style.size - 1),
                     y \in 0..(glyph_box(s[k]).h * style.size - 1) }
          : k \in { j \in 1..Len(s) : has_bbox(s[j]) } }

\* A cast to unsigned that would turn a negative coordinate into 0.
as_u32_saturating(v) == IF v < 0 THEN 0 ELSE v

\* (v) as u32: a negative value wraps around.
as_u32(v) == v % U32Values

\* img.in_bounds(x, y), x and y unsigned.
in_bounds(x, y) == x < ImgWidth /\ y < ImgHeight

\* render_line: the image with the line's glyph pixels blended, those outside
\* the image left out.
render_line(image, s, align, rect, style) ==
    image \cup { <<as_u32(p[1]), as_u32(p[2])>> :
                     p \in { q \in glyph_pixels(s, position_of(s, align, rect, style), style) :
                                 in_bounds(as_u32(q[1]), as_u32(q[2])) } }

\* The rect after a line: line_height taken from its height on the side the
\* vertical alignment asks for.
shrink_rect(rect, align, style) ==
    CASE align.vertical = "Top" ->
             [rect EXCEPT !.min.y = @ + line_height(style)]
      [] align.vertical = "Middle" ->
             [rect EXCEPT !.min.y = @ + line_height(style) \div 2,
                          !.max.y = @ - line_height(style) \div 2]
      [] align.vertical = "Bottom" ->
             [rect EXCEPT !.max.y = @ - line_height(style)]

\* The lines to draw, with one blank line where there is none.
lines_to_draw_never_empty(result, align) ==
    IF result = << >> THEN << << >> >> ELSE result

\* The lines in the order they are drawn: reversed for VAlign::Bottom.
lines_to_draw(result, align) ==
    IF align.vertical = "Bottom" THEN Reverse(result) ELSE result

\* render_text(img, s, align, rect, style) is called: the text is handed to
\* break_lines with the rect's width.
RenderTextStart(s, align, rect, style) ==
    /\ tpc = "idle"
    /\ ttext' = s
    /\ talign' = align
    /\ trect' = rect
    /\ tstyle' = style
    /\ CallBreakLines(s, style, width(rect))
    /\ tpc' = "break_lines"
    /\ UNCHANGED <<tlines, tdrawn, img, tsigned, capVars, cfgVars, preVars, fitVars, tplVars>>

\* break_lines has returned: the lines are reversed for VAlign::Bottom.
RenderTextLines ==
    /\ tpc = "break_lines"
    /\ bpc = "done"
    /\ bpc' = "idle"
    /\ tlines' = lines_to_draw(bres, talign)
    /\ tpc' = "for"
    /\ UNCHANGED <<ttext, talign, trect, tstyle, tdrawn, img, tsigned, bin, bstyle, bwidth,
                   blines, bsegs, bres, bcur, bcurw, bseg, bsegw,
                   capVars, cfgVars, preVars, fitVars, tplVars>>

\* for line in lines: the line is rendered and the rect shrinks.
RenderTextLine ==
    /\ tpc = "for" /\ tlines # << >>
    /\ img' = render_line(img, Head(tlines), talign, trect, tstyle)
    /\ tsigned' = tsigned \cup
           glyph_pixels(Head(tlines), position_of(Head(tlines), talign, trect, tstyle), tstyle)
    /\ tdrawn' = Append(tdrawn, [line |-> Head(tlines),
                                 position |-> position_of(Head(tlines), talign, trect, tstyle)])
    /\ trect' = shrink_rect(trect, talign, tstyle)
    /\ tlines' = Tail(tlines)
    /\ UNCHANGED <<tpc, ttext, talign, tstyle, capVars, cfgVars, preVars, brkVars,
                   fitVars, tplVars>>

\* The lines are exhausted: render_text returns the image.
RenderTextReturn ==
    /\ tpc = "for" /\ tlines = << >>
    /\ tpc' = "done"
    /\ UNCHANGED <<ttext, talign, trect, tstyle, tlines, tdrawn, img, tsigned,
                   capVars, cfgVars, preVars, brkVars, fitVars, tplVars>>

NextText ==
    \/ tpc = "idle" /\ \E s \in SeqsUpTo(Chars, MaxLen), v \in VAligns, h \in HAligns,
                               rect \in TextRects :
                            RenderTextStart(s, Alignment(v, h), rect, Style(2))
    \/ RenderTextLines
    \/ RenderTextLine
    \/ RenderTextReturn
    \/ BreakLine
    \/ BreakFits
    \/ BreakWrap
    \/ BreakLong
    \/ BreakHard
    \/ BreakAbort
    \/ BreakEnd
    \/ BreakReturn

InitRendering == InitCaptioner /\ InitConfig /\ InitPreload /\ InitBreak /\ InitLib

SpecText == InitRendering /\ [][NextText]_vars

\* render_text runs on a thread that keeps being scheduled.
FairText == SpecText /\ WF_vars(NextText)

\* C16 (as claimed): render_text with an explicit size on a rect without width
\* or without height returns, only pixels of the image having been blended.
C16_ZeroRectReturns ==
    /\ (tpc = "break_lines" /\ (width(trect) = 0 \/ height(trect) = 0)) ~> (tpc = "done")
    /\ [](\A p \in img : p[1] \in 0..(ImgWidth - 1) /\ p[2] \in 0..(ImgHeight - 1))

\* C18: render_text with an empty text calls render_line for no line and
\* blends no pixel: the image it returns is the one it was given.
C18_EmptyTextDrawsNothing ==
    (tpc # "idle" /\ ttext = << >>) => (tdrawn = << >> /\ img = {})

\* C18 witness: render_text returned for an empty text.
C18_Witness ==
    tpc = "done" /\ ttext = << >> /\ bin = << >> /\ bres = << >>

\* The baseline of the k-th line of the text, the lines counted in the order
\* break_lines returned them.
baseline(k) ==
    IF talign.vertical = "Bottom" THEN tdrawn[Len(tdrawn) + 1 - k].position.y
    ELSE tdrawn[k].position.y

\* C19 (as claimed): under every vertical alignment the lines of a text are
\* drawn in their order from top to bottom, each baseline line_height below
\* the one before.
C19_LinesStacked ==
    tpc = "done" =>
        \A k \in 1..(Len(tdrawn) - 1) : baseline(k + 1) = baseline(k) + line_height(tstyle)

\* C20: the pixels blended are exactly the glyph pixels whose signed
\* coordinates are inside the image: one with a negative coordinate, or one at
\* or beyond the width or the height, is skipped, also after the cast.
C20_OnlyInBoundsPixels ==
    img = { p \in tsigned : p[1] \in 0..(ImgWidth - 1) /\ p[2] \in 0..(ImgHeight - 1) }

\* C20 witness: lines were rendered with glyph pixels above the image (a
\* negative coordinate) and glyph pixels inside it.
C20_Witness ==
    /\ tpc = "done"
    /\ \E p \in tsigned : p[2] < 0
    /\ img # {}

(***************************************************************************)
(* Templates: Template::for_image, Template::preferred_format and the      *)
(* loading of a template file, of src/resources/templates.rs.              *)
(***************************************************************************)
\* DEFAULT_IMAGE_FORMAT.
DEFAULT_IMAGE_FORMAT == "PNG"

\* Extensions of the template files; "" is a path without extension.
Extensions == {"", "png", "PNG", "jpg", "jpeg", "JPG", "gif", "GIF", "bmp"}

\* The template files: what is_gif(&path) and is_gif_animated(&path)
\* .unwrap_or(false) say of them; the second is asked of GIF files only.
Files ==
    { [is_gif |-> FALSE, is_gif_animated |-> FALSE],
      [is_gif |-> TRUE, is_gif_animated |-> FALSE],
      [is_gif |-> TRUE, is_gif_animated |-> TRUE] }

\* str::to_lowercase, on the extensions of the model.
to_lowercase(ext) ==
    CASE ext = "PNG" -> "png" [] ext = "JPG" -> "jpg" [] ext = "GIF" -> "gif" [] OTHER -> ext

\* Template::for_image(img, path): the format comes from the extension.
for_image(path) ==
    [variant |-> "Image",
     format |-> CASE to_lowercase(path.extension) \in {"jpg", "jpeg"} -> "JPEG"
                  [] to_lowercase(path.extension) = "png" -> "PNG"
                  [] to_lowercase(path.extension) = "gif" -> "GIF"
                  [] OTHER -> DEFAULT_IMAGE_FORMAT]

\* Template::for_gif_animation(gif_anim).
for_gif_animation == [variant |-> "Animation", format |-> "GIF"]

\* A preferred format that is always the one the template was loaded from.
preferred_format_of_source(t) == t.format

\* Template::preferred_format.
preferred_format(t) ==
    IF t.variant = "Image"
    THEN IF t.format \in {"PNG", "JPEG"} THEN t.format ELSE DEFAULT_IMAGE_FORMAT
    ELSE "GIF"

\* Template::try_from(path): an animated GIF is decoded into an Animation, any
\* other file is opened as a still image; either can fail.
TemplateLoad(path, file, ok) ==
    /\ mpc = "idle"
    /\ mpath' = path
    /\ mfile' = file
    /\ IF ok
       THEN /\ template' = IF file.is_gif /\ file.is_gif_animated
                           THEN for_gif_animation ELSE for_image(path)
            /\ mpc' = "loaded"
       ELSE /\ mpc' = "failed"
            /\ UNCHANGED template
    /\ UNCHANGED <<preferred, capVars, cfgVars, preVars, brkVars, fitVars, txtVars>>

\* template.preferred_format() is asked of the loaded template.
TemplatePreferred ==
    /\ mpc = "loaded"
    /\ preferred' = preferred_format(template)
    /\ mpc' = "asked"
    /\ UNCHANGED <<mpath, mfile, template, capVars, cfgVars, preVars, brkVars, fitVars, txtVars>>

NextTemplate ==
    \/ \E stem \in Names, ext \in Extensions, file \in Files, ok \in BOOLEAN :
           TemplateLoad([stem |-> stem, extension |-> ext], file, ok)
    \/ TemplatePreferred

InitTemplates == InitCaptioner /\ InitConfig /\ InitPreload /\ InitBreak /\ InitLib

SpecTemplate == InitTemplates /\ [][NextTemplate]_vars

\* C17: the preferred format is GIF for an Animation, PNG for a still from a
\* PNG file, JPEG for a still from a JPEG file, and the default PNG for a still
\* from any other file, a GIF of one frame and an unknown extension included.
C17_PreferredFormat ==
    mpc = "asked" =>
        preferred =
            IF mfile.is_gif /\ mfile.is_gif_animated THEN "GIF"
            ELSE IF mpath.extension \in {"png", "PNG"} THEN "PNG"
            ELSE IF mpath.extension \in {"jpg", "jpeg", "JPG"} THEN "JPEG"
            ELSE "PNG"

\* C17 witness: the preferred format was asked of a still loaded from a GIF
\* file of one frame, and is PNG.
C17_Witness ==
    /\ mpc = "asked"
    /\ template = [variant |-> "Image", format |-> "GIF"]
    /\ mfile.is_gif /\ ~mfile.is_gif_animated
    /\ preferred = "PNG"

====
